---- MODULE Spec2Model ----
(***************************************************************************)
(* Model of package app (src/app/app.go): the process lifecycle            *)
(* coordinator.  One caller thread invokes NewDefaultApp,                  *)
(* RegisterShutdownHandler, RunAndWait and Shutdown; every RunAndWait      *)
(* invocation spawns one main-loop goroutine and one signal registration.  *)
(*                                                                         *)
(* Time is counted in seconds.  A signal is delivered to the program only  *)
(* while a registration that catches it is live; the default disposition   *)
(* of an uncaught signal (the Go runtime ends the process) is outside the  *)
(* package and is not modelled.                                            *)
(*                                                                         *)
(* The logger serialises the records of all goroutines into one stream;   *)
(* the order in which records of different goroutines reach it depends on  *)
(* scheduling only, so the model keeps the records of the caller thread    *)
(* and of each main-loop goroutine in sequences of their own.              *)
(***************************************************************************)
EXTENDS Integers, Sequences, FiniteSets, TLC

\* ---------------------------------------------------------------- bounds
MaxHandlers == 2      \* longest handler list the caller registers
MaxCalls == 2         \* RunAndWait invocations plus direct Shutdown calls

\* ------------------------------------------------------- program constants
DefaultGracePeriod == 3
DefaultShutdownTimeout == 5

NIL == "nil"
ErrMainLoopNil == "main loop is nil"
ErrMainLoop == "main loop failed"
ErrHandler == "handler failed"
ErrNotInitialized == "default app not initialized"

MsgStart == "[app] Starting run and wait."
MsgMainStart == "Application main loop starting now!"
MsgSignal == "Graceful shutdown signal received! Awaiting for grace period to end."
MsgGraceOver == "Grace period is over, initiating shutdown procedures..."
MsgMainDone == "Main Loop finished by itself, initiating shutdown procedures..."
MsgOk == "App gracefully terminated."
MsgFail == "App terminated with error"
MsgHandlerErr == "error executing shutdown handler"

\* The signals the host can raise, and the ones RunAndWait subscribes to.
Signals == {"SIGINT", "SIGTERM", "SIGHUP"}
NotifySignals == {"SIGINT", "SIGTERM"}

\* A ShutdownHandler is an opaque callable; it is identified here by what it
\* does when called: return nil, return an error, panic, or never return.
ShutdownHandler == {"ok", "err", "panic", "block"}

\* A MainLoopFunc is an opaque callable (or nil), identified by what it does.
MainLoopFunc == {"nil", "returnsNil", "returnsErr", "panics", "blocks"}

VARIABLES
  defaultApp,        \* "nil" before NewDefaultApp, "app" after
  GracePeriod,       \* App.GracePeriod
  ShutdownTimeout,   \* App.ShutdownTimeout
  shutdownHandlers,  \* App.shutdownHandlers
  pc,                \* position of the caller thread
  inRunAndWait,      \* TRUE while the caller is inside RunAndWait
  run,               \* number of RunAndWait invocations started so far
  direct,            \* number of direct Shutdown calls started so far
  mainLoop,          \* mainLoop[r]: the argument of invocation r
  g,                 \* g[r]: the main-loop goroutine of invocation r
  ctxDone,           \* ctxDone[r]: notifyCtx of invocation r is cancelled
  registered,        \* live signal registrations: [run, sigs]
  panicValue,        \* value of the panic that unwound the caller
  err,               \* RunAndWait's local err
  ret,               \* value returned by the last Shutdown call
  idx,               \* position of Shutdown's range loop
  sleepLeft,         \* seconds time.Sleep still has to wait
  slept,             \* seconds slept in the current RunAndWait invocation
  arm,               \* arm[r]: select case taken by invocation r
  log,               \* records the caller thread wrote to the logger
  glog,              \* glog[r]: records goroutine r wrote to the logger
  calls              \* Shutdown calls: [run, hs = handlers invoked so far]

vars == <<defaultApp, GracePeriod, ShutdownTimeout, shutdownHandlers, pc,
          inRunAndWait, run, direct, mainLoop, g, ctxDone, registered,
          panicValue, err, ret, idx, sleepLeft, slept, arm, log, glog, calls>>

appVars == <<defaultApp, GracePeriod, ShutdownTimeout, shutdownHandlers>>
goVars == <<mainLoop, g, glog>>
sigVars == <<ctxDone, registered>>

\* --------------------------------------------------------------- helpers
LogRec(r, m, e) == [run |-> r, msg |-> m, err |-> e]

\* run tag of the caller's log records and calls: 0 outside RunAndWait
CurRun == IF inRunAndWait THEN run ELSE 0

Last(s) == s[Len(s)]

SetLast(s, v) == [s EXCEPT ![Len(s)] = v]

\* messages of invocation r, in order
LogOf(r) == SelectSeq(log, LAMBDA e : e.run = r)

HasMsg(r, m) == \E i \in 1..Len(log) : log[i].run = r /\ log[i].msg = m

CallsOf(r) == SelectSeq(calls, LAMBDA c : c.run = r)

Init ==
  /\ defaultApp = "nil"
  /\ GracePeriod = 0
  /\ ShutdownTimeout = 0
  /\ shutdownHandlers = <<>>
  /\ pc = "main"
  /\ inRunAndWait = FALSE
  /\ run = 0
  /\ direct = 0
  /\ mainLoop = <<>>
  /\ g = <<>>
  /\ ctxDone = <<>>
  /\ registered = {}
  /\ panicValue = NIL
  /\ err = NIL
  /\ ret = NIL
  /\ idx = 0
  /\ sleepLeft = 0
  /\ slept = 0
  /\ arm = <<>>
  /\ log = <<>>
  /\ glog = <<>>
  /\ calls = <<>>

\* panic("default app not initialized"): the caller thread unwinds
PanicNotInitializedAfterLog ==
  /\ pc' = "panicked"
  /\ panicValue' = ErrNotInitialized
  /\ log' = Append(log, LogRec(0, MsgStart, NIL))
  /\ UNCHANGED <<appVars, inRunAndWait, run, direct, goVars, sigVars, err,
                 ret, idx, sleepLeft, slept, arm, calls>>

PanicNotInitialized ==
  /\ pc' = "panicked"
  /\ panicValue' = ErrNotInitialized
  /\ UNCHANGED <<appVars, inRunAndWait, run, direct, goVars, sigVars, err,
                 ret, idx, sleepLeft, slept, arm, log, calls>>

\* ------------------------------------------------------------ NewDefaultApp
NewDefaultApp ==
  /\ pc = "main"
  /\ defaultApp = "nil"
  /\ defaultApp' = "app"
  /\ GracePeriod' = DefaultGracePeriod
  /\ ShutdownTimeout' = DefaultShutdownTimeout
  /\ shutdownHandlers' = <<>>
  /\ UNCHANGED <<pc, inRunAndWait, run, direct, goVars, sigVars, panicValue,
                 err, ret, idx, sleepLeft, slept, arm, log, calls>>

\* -------------------------------------------------- RegisterShutdownHandler
RegisterShutdownHandlerPrepends(handler) ==
  /\ pc = "main"
  /\ run + direct = 0
  /\ IF defaultApp = "nil"
     THEN PanicNotInitialized
     ELSE /\ Len(shutdownHandlers) < MaxHandlers
          /\ shutdownHandlers' = <<handler>> \o shutdownHandlers
          /\ UNCHANGED <<defaultApp, GracePeriod, ShutdownTimeout, pc,
                         inRunAndWait, run, direct, goVars, sigVars,
                         panicValue, err, ret, idx, sleepLeft, slept, arm,
                         log, calls>>

\* The caller registers during the registration phase only, before its first
\* RunAndWait or Shutdown call.
RegisterShutdownHandler(handler) ==
  /\ pc = "main"
  /\ run + direct = 0
  /\ IF defaultApp = "nil"
     THEN PanicNotInitialized
     ELSE /\ Len(shutdownHandlers) < MaxHandlers
          /\ shutdownHandlers' = Append(shutdownHandlers, handler)
          /\ UNCHANGED <<defaultApp, GracePeriod, ShutdownTimeout, pc,
                         inRunAndWait, run, direct, goVars, sigVars,
                         panicValue, err, ret, idx, sleepLeft, slept, arm,
                         log, calls>>

\* ------------------------------------------------------------------ Shutdown
EnterShutdownOnce(r) ==
  /\ calls' = Append(calls, [run |-> r, hs |-> <<>>])
  /\ idx' = IF calls = <<>> THEN 1 ELSE Len(shutdownHandlers) + 1
  /\ pc' = "shutdown"

\* Shutdown's entry (lines 93-98): the range loop starts at the first handler.
EnterShutdown(r) ==
  /\ calls' = Append(calls, [run |-> r, hs |-> <<>>])
  /\ idx' = 1
  /\ pc' = "shutdown"

\* the caller invokes a.Shutdown(ctx) itself
Shutdown ==
  /\ pc = "main"
  /\ run + direct < MaxCalls
  /\ IF defaultApp = "nil"
     THEN PanicNotInitialized
     ELSE /\ direct' = direct + 1
          /\ EnterShutdown(0)
          /\ UNCHANGED <<appVars, inRunAndWait, run, goVars, sigVars,
                         panicValue, err, ret, sleepLeft, slept, arm, log>>

\* line 109: the value Shutdown returns, given the errors its handlers returned
ShutdownResultLastError(errors) ==
  IF errors = <<>> THEN NIL ELSE errors[Len(errors)]

ShutdownResult(errors) == NIL

\* errors returned by the handlers a Shutdown call has invoked
HandlerResult(h) == IF h = "err" THEN ErrHandler ELSE NIL

ErrorsOf(hs) ==
  SelectSeq([i \in 1..Len(hs) |-> HandlerResult(hs[i])], LAMBDA e : e # NIL)

\* lines 98-99: one iteration of the range loop calls the next handler, or the
\* loop ends and Shutdown returns (line 109)
ShutdownLoop ==
  /\ pc = "shutdown"
  /\ IF idx <= Len(shutdownHandlers)
     THEN /\ calls' = SetLast(calls, [Last(calls) EXCEPT
                         !.hs = Append(@, shutdownHandlers[idx])])
          /\ pc' = "handler"
          /\ UNCHANGED ret
     ELSE /\ ret' = ShutdownResult(ErrorsOf(Last(calls).hs))
          /\ pc' = "returned"
          /\ UNCHANGED calls
  /\ UNCHANGED <<appVars, inRunAndWait, run, direct, goVars, sigVars,
                 panicValue, err, idx, sleepLeft, slept, arm, log>>

\* position of the range loop after handler i of n returned e
AfterHandlerStopOnError(i, e, n) == IF e # NIL THEN n + 1 ELSE i + 1

AfterHandler(i, e, n) == i + 1

HandlerReturnOnTimeout ==
  /\ pc = "handler"
  /\ shutdownHandlers[idx] \in {"ok", "err", "block"}
  /\ LET e == IF shutdownHandlers[idx] = "block" THEN "deadline exceeded"
              ELSE HandlerResult(shutdownHandlers[idx]) IN
       /\ log' = IF e # NIL
                 THEN Append(log, LogRec(CurRun, MsgHandlerErr, e))
                 ELSE log
       /\ idx' = AfterHandler(idx, e, Len(shutdownHandlers))
  /\ pc' = "shutdown"
  /\ UNCHANGED <<appVars, inRunAndWait, run, direct, goVars, sigVars,
                 panicValue, err, ret, sleepLeft, slept, arm, calls>>

\* lines 99-106: the handler returns; an error is logged and the loop goes on
HandlerReturn ==
  /\ pc = "handler"
  /\ shutdownHandlers[idx] \in {"ok", "err"}
  /\ LET e == HandlerResult(shutdownHandlers[idx]) IN
       /\ log' = IF e # NIL
                 THEN Append(log, LogRec(CurRun, MsgHandlerErr, e))
                 ELSE log
       /\ idx' = AfterHandler(idx, e, Len(shutdownHandlers))
  /\ pc' = "shutdown"
  /\ UNCHANGED <<appVars, inRunAndWait, run, direct, goVars, sigVars,
                 panicValue, err, ret, sleepLeft, slept, arm, calls>>

\* signal.Stop for invocation r: its registration is removed
ReleaseNever(reg, r) == reg

Release(reg, r) == {x \in reg : x.run # r}

\* cancel(), deferred at line 69, runs when RunAndWait returns or unwinds: it
\* stops the registration of the invocation and cancels notifyCtx
Cancel ==
  /\ registered' = Release(registered, run)
  /\ ctxDone' = [ctxDone EXCEPT ![run] = TRUE]

HandlerPanicRecovered ==
  /\ pc = "handler"
  /\ shutdownHandlers[idx] = "panic"
  /\ log' = Append(log, LogRec(CurRun, MsgHandlerErr, "handler panic"))
  /\ idx' = idx + 1
  /\ pc' = "shutdown"
  /\ UNCHANGED <<appVars, inRunAndWait, run, direct, goVars, sigVars,
                 panicValue, err, ret, sleepLeft, slept, arm, calls>>

\* line 99: the handler panics; nothing in Shutdown or RunAndWait recovers, so
\* the panic unwinds the caller (running RunAndWait's deferred cancel)
HandlerPanic ==
  /\ pc = "handler"
  /\ shutdownHandlers[idx] = "panic"
  /\ pc' = "panicked"
  /\ panicValue' = "handler panic"
  /\ IF inRunAndWait THEN Cancel ELSE UNCHANGED sigVars
  /\ UNCHANGED <<appVars, inRunAndWait, run, direct, goVars, err, ret, idx,
                 sleepLeft, slept, arm, log, calls>>

\* a direct Shutdown call returns to the caller
ShutdownReturn ==
  /\ pc = "returned"
  /\ ~inRunAndWait
  /\ pc' = "main"
  /\ UNCHANGED <<appVars, inRunAndWait, run, direct, goVars, sigVars,
                 panicValue, err, ret, idx, sleepLeft, slept, arm, log, calls>>

\* ---------------------------------------------------------------- RunAndWait
\* lines 47-72: check, log, make the channel, start the goroutine, subscribe
RunAndWait(ml) ==
  /\ pc = "main"
  /\ run + direct < MaxCalls
  /\ IF defaultApp = "nil"
     THEN PanicNotInitialized
     ELSE /\ run' = run + 1
          /\ inRunAndWait' = TRUE
          /\ log' = Append(log, LogRec(run + 1, MsgStart, NIL))
          /\ mainLoop' = Append(mainLoop, ml)
          /\ g' = Append(g, [st |-> "start", val |-> NIL])
          /\ glog' = Append(glog, <<>>)
          /\ ctxDone' = Append(ctxDone, FALSE)
          /\ registered' = registered \cup
                             {[run |-> run + 1, sigs |-> NotifySignals]}
          /\ arm' = Append(arm, "none")
          /\ err' = NIL
          /\ slept' = 0
          /\ pc' = "select"
          /\ UNCHANGED <<appVars, direct, panicValue, ret, idx, sleepLeft,
                         calls>>

\* lines 60-64: the goroutine logs, then sends the nil-main-loop error or
\* calls mainLoop
GoStartStateNoNilCheck(ml) ==
  IF ml = "nil" THEN [st |-> "exited", val |-> NIL]
  ELSE [st |-> "running", val |-> NIL]

GoStartState(ml) ==
  IF ml = "nil" THEN [st |-> "sending", val |-> ErrMainLoopNil]
  ELSE [st |-> "running", val |-> NIL]

GoStart(r) ==
  /\ pc # "panicked"
  /\ g[r].st = "start"
  /\ glog' = [glog EXCEPT ![r] = Append(@, LogRec(r, MsgMainStart, NIL))]
  /\ g' = [g EXCEPT ![r] = GoStartState(mainLoop[r])]
  /\ UNCHANGED <<appVars, pc, inRunAndWait, run, direct, mainLoop, sigVars,
                 panicValue, err, ret, idx, sleepLeft, slept, arm, log, calls>>

\* line 65: mainLoop() returns and the goroutine blocks sending the result
MainLoopResult(ml) == IF ml = "returnsErr" THEN ErrMainLoop ELSE NIL

MainLoopReturnBuffered(r) ==
  /\ pc # "panicked"
  /\ g[r].st = "running"
  /\ mainLoop[r] \in {"returnsNil", "returnsErr"}
  /\ g' = [g EXCEPT ![r] = [st |-> "exited",
                            val |-> MainLoopResult(mainLoop[r])]]
  /\ UNCHANGED <<appVars, pc, inRunAndWait, run, direct, mainLoop, glog,
                 sigVars, panicValue, err, ret, idx, sleepLeft, slept, arm,
                 log, calls>>

MainLoopReturn(r) ==
  /\ pc # "panicked"
  /\ g[r].st = "running"
  /\ mainLoop[r] \in {"returnsNil", "returnsErr"}
  /\ g' = [g EXCEPT ![r] = [st |-> "sending",
                            val |-> MainLoopResult(mainLoop[r])]]
  /\ UNCHANGED <<appVars, pc, inRunAndWait, run, direct, mainLoop, glog,
                 sigVars, panicValue, err, ret, idx, sleepLeft, slept, arm,
                 log, calls>>

\* lines 56-58: the deferred recover() swallows a panic of mainLoop(); the
\* goroutine ends without sending
RecoveredSendsError == [st |-> "sending", val |-> "main loop panic"]

Recovered == [st |-> "exited", val |-> NIL]

MainLoopPanic(r) ==
  /\ pc # "panicked"
  /\ g[r].st = "running"
  /\ mainLoop[r] = "panics"
  /\ g' = [g EXCEPT ![r] = Recovered]
  /\ UNCHANGED <<appVars, pc, inRunAndWait, run, direct, mainLoop, glog,
                 sigVars, panicValue, err, ret, idx, sleepLeft, slept, arm,
                 log, calls>>

\* the host delivers a signal: every live registration that catches it has
\* its context cancelled
OSSignal(sig) ==
  /\ pc # "panicked"
  /\ \E x \in registered : sig \in x.sigs /\ ~ctxDone[x.run]
  /\ ctxDone' = [r \in 1..Len(ctxDone) |->
                   ctxDone[r] \/ \E x \in registered :
                                    x.run = r /\ sig \in x.sigs]
  /\ UNCHANGED <<appVars, pc, inRunAndWait, run, direct, goVars, registered,
                 panicValue, err, ret, idx, sleepLeft, slept, arm, log, calls>>

\* line 76: how long the signal arm sleeps
SleepDurationNone(gp) == 0

SleepDuration(gp) == gp

SelectSignalNoWait ==
  /\ pc = "select"
  /\ arm' = [arm EXCEPT ![run] = "signal"]
  /\ log' = Append(log, LogRec(run, MsgSignal, NIL))
  /\ sleepLeft' = SleepDuration(GracePeriod)
  /\ pc' = "sleep"
  /\ UNCHANGED <<appVars, inRunAndWait, run, direct, goVars, sigVars,
                 panicValue, err, ret, idx, slept, calls>>

SelectSignalCancelsMainLoop ==
  /\ pc = "select"
  /\ ctxDone[run]
  /\ arm' = [arm EXCEPT ![run] = "signal"]
  /\ log' = Append(log, LogRec(run, MsgSignal, NIL))
  /\ sleepLeft' = SleepDuration(GracePeriod)
  /\ g' = [g EXCEPT ![run] = [st |-> "exited", val |-> NIL]]
  /\ pc' = "sleep"
  /\ UNCHANGED <<appVars, inRunAndWait, run, direct, mainLoop, glog, sigVars,
                 panicValue, err, ret, idx, slept, calls>>

\* lines 74-76: the signal arm is taken; log, then time.Sleep(a.GracePeriod)
SelectSignal ==
  /\ pc = "select"
  /\ ctxDone[run]
  /\ arm' = [arm EXCEPT ![run] = "signal"]
  /\ log' = Append(log, LogRec(run, MsgSignal, NIL))
  /\ sleepLeft' = SleepDuration(GracePeriod)
  /\ pc' = "sleep"
  /\ UNCHANGED <<appVars, inRunAndWait, run, direct, goVars, sigVars,
                 panicValue, err, ret, idx, slept, calls>>

\* one second of the sleep passes
SleepTick ==
  /\ pc = "sleep"
  /\ sleepLeft > 0
  /\ sleepLeft' = sleepLeft - 1
  /\ slept' = slept + 1
  /\ UNCHANGED <<appVars, pc, inRunAndWait, run, direct, goVars, sigVars,
                 panicValue, err, ret, idx, arm, log, calls>>

\* lines 77-78: the sleep is over; log and call Shutdown
SleepEnd ==
  /\ pc = "sleep"
  /\ sleepLeft = 0
  /\ log' = Append(log, LogRec(run, MsgGraceOver, NIL))
  /\ EnterShutdown(run)
  /\ UNCHANGED <<appVars, inRunAndWait, run, direct, goVars, sigVars,
                 panicValue, err, ret, sleepLeft, slept, arm>>

\* lines 80-81: what the main-loop arm logs for the received error e
MainLoopLogNone(r, e) == <<>>

MainLoopLog(r, e) == <<LogRec(r, MsgMainDone, e)>>

\* lines 79-82: the main-loop arm is taken; the send of the goroutine
\* completes and the goroutine ends.  err.Error() on a nil error is a nil
\* dereference: the caller panics before anything is logged, and the deferred
\* cancel runs.
SelectMain ==
  /\ pc = "select"
  /\ g[run].st = "sending"
  /\ g' = [g EXCEPT ![run] = [st |-> "exited", val |-> NIL]]
  /\ arm' = [arm EXCEPT ![run] = "main"]
  /\ err' = g[run].val
  /\ IF g[run].val = NIL
     THEN /\ pc' = "panicked"
          /\ panicValue' = "nil pointer dereference"
          /\ Cancel
          /\ UNCHANGED <<log, calls, idx>>
     ELSE /\ log' = log \o MainLoopLog(run, g[run].val)
          /\ EnterShutdown(run)
          /\ UNCHANGED <<panicValue, sigVars>>
  /\ UNCHANGED <<appVars, inRunAndWait, run, direct, mainLoop, glog, ret,
                 sleepLeft, slept>>

\* lines 78/82 and 84-90: Shutdown's result is assigned to err, the outcome is
\* logged, the deferred cancel runs and RunAndWait returns
RunAndWaitReturnKeepsErr ==
  /\ pc = "returned"
  /\ inRunAndWait
  /\ err' = IF ret = NIL THEN err ELSE ret
  /\ log' = Append(log, IF err' = NIL THEN LogRec(run, MsgOk, NIL)
                        ELSE LogRec(run, MsgFail, err'))
  /\ Cancel
  /\ inRunAndWait' = FALSE
  /\ pc' = "main"
  /\ UNCHANGED <<appVars, run, direct, goVars, panicValue, ret, idx,
                 sleepLeft, slept, arm, calls>>

RunAndWaitReturnLoops ==
  /\ pc = "returned"
  /\ inRunAndWait
  /\ err' = ret
  /\ log' = Append(log, IF ret = NIL THEN LogRec(run, MsgOk, NIL)
                        ELSE LogRec(run, MsgFail, ret))
  /\ pc' = "select"
  /\ UNCHANGED <<appVars, inRunAndWait, run, direct, goVars, sigVars,
                 panicValue, ret, idx, sleepLeft, slept, arm, calls>>

RunAndWaitReturn ==
  /\ pc = "returned"
  /\ inRunAndWait
  /\ err' = ret
  /\ log' = Append(log, IF ret = NIL THEN LogRec(run, MsgOk, NIL)
                        ELSE LogRec(run, MsgFail, ret))
  /\ Cancel
  /\ inRunAndWait' = FALSE
  /\ pc' = "main"
  /\ UNCHANGED <<appVars, run, direct, goVars, panicValue, ret, idx,
                 sleepLeft, slept, arm, calls>>

\* ------------------------------------------------------------ specification
Next ==
  \/ NewDefaultApp
  \/ \E h \in ShutdownHandler : RegisterShutdownHandler(h)
  \/ \E ml \in MainLoopFunc : RunAndWait(ml)
  \/ Shutdown
  \/ ShutdownLoop
  \/ HandlerReturn
  \/ HandlerPanic
  \/ ShutdownReturn
  \/ \E r \in 1..run : GoStart(r)
  \/ \E r \in 1..run : MainLoopReturn(r)
  \/ \E r \in 1..run : MainLoopPanic(r)
  \/ \E sig \in Signals : OSSignal(sig)
  \/ SelectSignal
  \/ SleepTick
  \/ SleepEnd
  \/ SelectMain
  \/ RunAndWaitReturn

Spec == Init /\ [][Next]_vars

TypeOK ==
  /\ defaultApp \in {"nil", "app"}
  /\ pc \in {"main", "select", "sleep", "shutdown", "handler", "returned",
             "panicked"}
  /\ run \in 0..MaxCalls /\ direct \in 0..MaxCalls
  /\ Len(mainLoop) = run /\ Len(g) = run /\ Len(ctxDone) = run
  /\ Len(arm) = run /\ Len(glog) = run
  /\ Len(shutdownHandlers) <= MaxHandlers
  /\ sleepLeft \in 0..DefaultGracePeriod

\* ------------------------------------------------------------------ history
Runs == 1..run

\* the handlers invoked by all Shutdown calls of cs, in order
RECURSIVE Invoked(_)
Invoked(cs) == IF cs = <<>> THEN <<>> ELSE Head(cs).hs \o Invoked(Tail(cs))

\* number of records of s whose message is one of ms
CountMsg(s, ms) == Len(SelectSeq(s, LAMBDA e : e.msg \in ms))

\* invocation r wrote its final outcome record (and returned in that step)
Finished(r) == HasMsg(r, MsgOk) \/ HasMsg(r, MsgFail)

\* position of the first record with message m in s, 0 if there is none
FirstPos(s, m) ==
  IF \E i \in 1..Len(s) : s[i].msg = m
  THEN CHOOSE i \in 1..Len(s) :
         s[i].msg = m /\ \A j \in 1..(i - 1) : s[j].msg # m
  ELSE 0

\* ------------------------------------------------------------------- claims

\* C1: one Shutdown call invokes every registered handler exactly once and in
\* registration order, whatever the handlers return: at every point of the
\* loop the handlers invoked so far are the prefix of the list the loop has
\* reached, and when Shutdown returns they are the whole list.
C1_ShutdownInvokesAllInOrder ==
  /\ pc = "shutdown" =>
       /\ idx \in 1..(Len(shutdownHandlers) + 1)
       /\ Last(calls).hs = SubSeq(shutdownHandlers, 1, idx - 1)
  /\ pc = "handler" =>
       /\ idx \in 1..Len(shutdownHandlers)
       /\ Last(calls).hs = SubSeq(shutdownHandlers, 1, idx)
  /\ pc = "returned" => Last(calls).hs = shutdownHandlers

\* a Shutdown call returned after a failing first handler and a second one
C1_Witness ==
  /\ pc = "returned"
  /\ shutdownHandlers = <<"err", "ok">>
  /\ Last(calls).hs = <<"err", "ok">>

\* C2 (as claimed): a main loop that returns nil, taken by the main-loop arm,
\* leads to exactly one Shutdown call and never to a panic of RunAndWait.
C2_NilResultRunsShutdown ==
  \A r \in Runs :
    (mainLoop[r] = "returnsNil" /\ arm[r] = "main") =>
      /\ Len(CallsOf(r)) = 1
      /\ panicValue # "nil pointer dereference"

\* C3: when the main loop returns an error and the main-loop arm is taken,
\* Shutdown is called exactly once and the main loop's error is in the log
\* from that moment on, ahead of every handler-failure and outcome record.
C3_MainLoopErrorLoggedFirst ==
  \A r \in Runs :
    (mainLoop[r] = "returnsErr" /\ arm[r] = "main") =>
      LET l == LogOf(r)
          p == FirstPos(l, MsgMainDone) IN
        /\ Len(CallsOf(r)) = 1
        /\ p > 0
        /\ l[p].err = ErrMainLoop
        /\ CountMsg(l, {MsgMainDone}) = 1
        /\ \A j \in 1..(p - 1) : l[j].msg \notin {MsgHandlerErr, MsgOk, MsgFail}

\* the error run ended: a handler failed and the outcome was logged after it
C3_Witness ==
  \E r \in Runs :
    /\ mainLoop[r] = "returnsErr" /\ arm[r] = "main"
    /\ Finished(r)
    /\ HasMsg(r, MsgHandlerErr)

\* C4 (as claimed): whenever RunAndWait(nil) has written its outcome, the
\* nil-main-loop error has been logged.
C4_NilMainLoopErrorAlwaysLogged ==
  \A r \in Runs :
    (mainLoop[r] = "nil" /\ Finished(r)) =>
      \E i \in 1..Len(log) : log[i] = LogRec(r, MsgMainDone, ErrMainLoopNil)

\* C4 (amended): with a nil main loop nothing crashes: the goroutine never
\* panics, it offers the descriptive error and ends only once that error was
\* received; only a panicking handler unwinds the caller.  If the main-loop
\* arm is taken the error is logged and Shutdown is called once, running all
\* handlers in order before RunAndWait returns; if the signal arm is taken
\* Shutdown runs as well but the error is never received or logged.
C4_NilMainLoopHandledAsFailure ==
  \A r \in Runs :
    mainLoop[r] = "nil" =>
      /\ g[r].st \in {"start", "sending", "exited"}
      /\ g[r].st = "sending" => g[r].val = ErrMainLoopNil
      /\ g[r].st = "exited" => arm[r] = "main"
      /\ (r = run /\ inRunAndWait /\ pc = "panicked") =>
           panicValue = "handler panic"
      /\ arm[r] = "main" =>
           /\ Len(CallsOf(r)) = 1
           /\ \E i \in 1..Len(log) :
                log[i] = LogRec(r, MsgMainDone, ErrMainLoopNil)
      /\ arm[r] = "signal" =>
           /\ ~HasMsg(r, MsgMainDone)
           /\ g[r].st # "exited"
      /\ (r = run /\ inRunAndWait /\ pc = "returned") =>
           CallsOf(r) = <<[run |-> r, hs |-> shutdownHandlers]>>
      /\ Finished(r) => Len(CallsOf(r)) = 1

\* RunAndWait(nil) took the main-loop arm and its Shutdown ran two handlers
C4_Witness ==
  /\ run >= 1 /\ inRunAndWait /\ pc = "returned"
  /\ mainLoop[run] = "nil" /\ arm[run] = "main"
  /\ Len(shutdownHandlers) = 2
  /\ HasMsg(run, MsgMainDone)

\* C5: on the signal arm the order is signal record, the whole grace period,
\* grace-over record, Shutdown: no Shutdown call exists while the sleep lasts,
\* and once one exists the invocation has slept GracePeriod seconds, whatever
\* the main loop did meanwhile.  On the main-loop arm nothing is slept.
C5_GracePeriodFullyElapses ==
  run >= 1 =>
    LET l == LogOf(run) IN
      /\ pc = "sleep" =>
           /\ arm[run] = "signal"
           /\ CallsOf(run) = <<>>
           /\ slept + sleepLeft = GracePeriod
           /\ HasMsg(run, MsgSignal) /\ ~HasMsg(run, MsgGraceOver)
      /\ (arm[run] = "signal" /\ CallsOf(run) # <<>>) =>
           /\ slept = GracePeriod
           /\ 0 < FirstPos(l, MsgSignal)
           /\ FirstPos(l, MsgSignal) < FirstPos(l, MsgGraceOver)
      /\ arm[run] = "main" =>
           /\ slept = 0
           /\ ~HasMsg(run, MsgSignal) /\ ~HasMsg(run, MsgGraceOver)
      /\ arm[run] = "none" => slept = 0

\* the main loop produced its result while the signal arm was sleeping or
\* later; the handlers still started only after the full grace period
C5_Witness ==
  /\ run >= 1 /\ pc = "handler"
  /\ arm[run] = "signal"
  /\ g[run].st = "sending"
  /\ slept = DefaultGracePeriod

\* C6: one RunAndWait invocation calls Shutdown at most once, runs no handler
\* more often than it is registered, and handles one arm only: its log never
\* holds both the signal record and the main-loop record, nor one of them
\* twice.
C6_OneArmOneShutdown ==
  \A r \in Runs :
    LET l == LogOf(r) IN
      /\ Len(CallsOf(r)) <= 1
      /\ Len(Invoked(CallsOf(r))) <= Len(shutdownHandlers)
      /\ ~(HasMsg(r, MsgSignal) /\ HasMsg(r, MsgMainDone))
      /\ CountMsg(l, {MsgSignal, MsgMainDone}) <= 1
      /\ CountMsg(l, {MsgOk, MsgFail}) <= 1
      /\ Len(CallsOf(r)) = 1 => arm[r] # "none"

\* a signal and a main-loop outcome both occurred in one invocation, and the
\* invocation ended having handled the signal only
C6_Witness ==
  \E r \in Runs :
    /\ Finished(r)
    /\ arm[r] = "signal"
    /\ g[r].st = "sending"
    /\ Len(CallsOf(r)) = 1

\* C7 (as claimed): once an arm of the race is taken, Shutdown is invoked on
\* that arm (after the grace period on the signal arm), and RunAndWait ends
\* only by returning, unless a handler panics.
C7_RaceResolvedLeadsToShutdown ==
  \A r \in Runs :
    arm[r] # "none" =>
      /\ CallsOf(r) # <<>> \/ (r = run /\ pc = "sleep")
      /\ (r = run /\ inRunAndWait /\ pc = "panicked") =>
           panicValue = "handler panic"

\* C8: a panic of the main loop is swallowed: the goroutine ends without
\* offering an outcome, the main-loop arm is never taken, the caller does not
\* panic because of it, and RunAndWait stays in the select until a signal is
\* observed, so every Shutdown of such an invocation is on the signal arm.
C8_MainLoopPanicSwallowed ==
  \A r \in Runs :
    mainLoop[r] = "panics" =>
      /\ g[r].st \in {"start", "running", "exited"}
      /\ arm[r] # "main"
      /\ ~HasMsg(r, MsgMainDone)
      /\ CallsOf(r) # <<>> => (arm[r] = "signal" /\ ctxDone[r])
      /\ (r = run /\ inRunAndWait /\ ~ctxDone[r]) => pc = "select"
      /\ (r = run /\ inRunAndWait /\ pc = "panicked") =>
           panicValue = "handler panic"

\* the main loop panicked, a signal arrived, and Shutdown returned
C8_Witness ==
  /\ run >= 1 /\ inRunAndWait /\ pc = "returned"
  /\ mainLoop[run] = "panics"
  /\ g[run].st = "exited"
  /\ arm[run] = "signal"

\* C9: every Shutdown call that returns returns nil, with no handlers as with
\* failing ones, and every error a handler returned has its own log record.
C9_ShutdownReportsSuccess ==
  pc = "returned" =>
    /\ ret = NIL
    /\ CountMsg(LogOf(CurRun), {MsgHandlerErr})
         = Len(ErrorsOf(Invoked(CallsOf(CurRun))))

\* Shutdown returned nil although both of its handlers failed
C9_Witness ==
  /\ pc = "returned"
  /\ shutdownHandlers = <<"err", "err">>
  /\ ret = NIL
  /\ CountMsg(LogOf(CurRun), {MsgHandlerErr}) = 2

\* C10: a registration is live only inside the RunAndWait invocation that made
\* it, and it catches SIGINT and SIGTERM only: whenever no invocation is in
\* progress (it returned or unwound with a panic) nothing is registered.
C10_RegistrationReleased ==
  /\ \A x \in registered :
       /\ x.sigs = {"SIGINT", "SIGTERM"}
       /\ x.run = run /\ inRunAndWait
  /\ Cardinality(registered) <= 1
  /\ pc \in {"main", "panicked"} => registered = {}
  /\ (inRunAndWait /\ pc \notin {"main", "panicked"}) =>
       registered = {[run |-> run, sigs |-> NotifySignals]}

\* two invocations have ended, one on each arm, and nothing is registered
C10_Witness ==
  /\ run = 2 /\ pc = "main"
  /\ arm = <<"signal", "main">>
  /\ registered = {}

\* C11: while the coordinator is not constructed, a call of RunAndWait,
\* Shutdown or RegisterShutdownHandler only panics: no invocation is counted,
\* no goroutine, registration, Shutdown call or log record exists, and the
\* handler list is empty; that panic occurs in no other situation.
C11_UninitializedCallsOnlyPanic ==
  /\ defaultApp = "nil" =>
       /\ pc \in {"main", "panicked"}
       /\ pc = "panicked" => panicValue = ErrNotInitialized
       /\ ~inRunAndWait
       /\ run = 0 /\ direct = 0
       /\ mainLoop = <<>> /\ g = <<>> /\ glog = <<>>
       /\ registered = {} /\ ctxDone = <<>>
       /\ calls = <<>> /\ log = <<>>
       /\ shutdownHandlers = <<>>
  /\ panicValue = ErrNotInitialized =>
       (defaultApp = "nil" /\ pc = "panicked")

\* a lifecycle operation was called before NewDefaultApp and panicked
C11_Witness ==
  /\ defaultApp = "nil"
  /\ pc = "panicked"
  /\ panicValue = ErrNotInitialized

\* C12: the handler list only grows, one entry at a time and at its end: every
\* step leaves the entries it had in place, and a step that appends one is
\* taken by the constructed coordinator's caller outside any call and leaves
\* GracePeriod and ShutdownTimeout as they are; a handler may be appended
\* again and again.
C12_RegistrationAppendOnly ==
  [][/\ Len(shutdownHandlers') \in
          {Len(shutdownHandlers), Len(shutdownHandlers) + 1}
     /\ SubSeq(shutdownHandlers', 1, Len(shutdownHandlers)) = shutdownHandlers
     /\ shutdownHandlers' # shutdownHandlers =>
          /\ pc = "main" /\ pc' = "main"
          /\ defaultApp = "app"
          /\ GracePeriod' = GracePeriod
          /\ ShutdownTimeout' = ShutdownTimeout
          /\ UNCHANGED <<defaultApp, run, direct, calls, log, registered>>
    ]_vars

\* one handler was registered twice and a Shutdown call invoked it twice
C12_Witness ==
  /\ shutdownHandlers = <<"ok", "ok">>
  /\ pc = "returned"
  /\ Last(calls).hs = <<"ok", "ok">>
  /\ GracePeriod = DefaultGracePeriod
  /\ ShutdownTimeout = DefaultShutdownTimeout

C14_MainLoopNeverCancelled ==
  [][\A r \in Runs :
       (g[r].st = "running" /\ g'[r] # g[r]) =>
         /\ mainLoop[r] \in {"returnsNil", "returnsErr", "panics"}
         /\ g'[r].st \in {"sending", "exited"}
         /\ UNCHANGED <<pc, inRunAndWait, run, direct, arm, idx, err, ret,
                        sleepLeft, slept, log, calls, registered, ctxDone>>
    ]_vars

\* the signal arm slept, ran the handlers and RunAndWait returned, while the
\* main loop of that invocation is still running
C14_Witness ==
  \E r \in Runs :
    /\ g[r].st = "running"
    /\ arm[r] = "signal"
    /\ Finished(r)
    /\ pc = "main"
    /\ Len(CallsOf(r)) = 1 /\ CallsOf(r)[1].hs # <<>>

\* C15: RunAndWait calls Shutdown only after the race is decided: an
\* invocation with a Shutdown call has taken an arm, the signal arm only with
\* its context cancelled and the signal record logged, the main-loop arm only
\* with the outcome of its goroutine received.  Until then the caller waits in
\* the select, and with a main loop that never returns and no signal it stays
\* there without a Shutdown call or an outcome record.
C15_NoCleanupBeforeRaceResolved ==
  \A r \in Runs :
    /\ CallsOf(r) # <<>> => arm[r] # "none"
    /\ arm[r] = "signal" => (ctxDone[r] /\ HasMsg(r, MsgSignal))
    /\ arm[r] = "main" =>
         /\ g[r].st = "exited"
         /\ mainLoop[r] \in {"nil", "returnsNil", "returnsErr"}
    /\ (r = run /\ inRunAndWait /\ arm[r] = "none") =>
         (pc = "select" /\ ~Finished(r))
    /\ (r = run /\ inRunAndWait /\ mainLoop[r] = "blocks" /\ ~ctxDone[r]) =>
         (pc = "select" /\ CallsOf(r) = <<>> /\ ~Finished(r))

\* the main loop is running and never returns, no signal has arrived:
\* RunAndWait waits in the select and no registered handler has been invoked
C15_Witness ==
  /\ run >= 1 /\ pc = "select"
  /\ mainLoop[run] = "blocks" /\ g[run].st = "running"
  /\ ~ctxDone[run]
  /\ shutdownHandlers # <<>>
  /\ CallsOf(run) = <<>>

\* C16: the outcome of the main-loop goroutine is received only by the
\* main-loop arm of its own invocation.  Once the signal arm is taken the
\* goroutine never ends after offering an outcome (it ends only through a
\* recovered panic) and the main-loop record of the invocation is never
\* logged, also after RunAndWait has returned.
C16_OutcomeLostOnSignalArm ==
  \A r \in Runs :
    /\ (g[r].st = "exited" /\ mainLoop[r] # "panics") => arm[r] = "main"
    /\ arm[r] = "signal" =>
         /\ ~HasMsg(r, MsgMainDone)
         /\ g[r].st = "exited" => mainLoop[r] = "panics"
         /\ mainLoop[r] \in {"nil", "returnsNil", "returnsErr"} =>
              g[r].st \in {"start", "running", "sending"}
    /\ g[r].st = "sending" =>
         g[r].val = (IF mainLoop[r] = "nil" THEN ErrMainLoopNil
                     ELSE MainLoopResult(mainLoop[r]))

\* RunAndWait returned on the signal arm; the main loop returned an error
\* and its goroutine is blocked sending it
C16_Witness ==
  \E r \in Runs :
    /\ arm[r] = "signal" /\ Finished(r) /\ pc = "main"
    /\ mainLoop[r] = "returnsErr"
    /\ g[r].st = "sending" /\ g[r].val = ErrMainLoop
    /\ ~HasMsg(r, MsgMainDone)

\* C17: the error outcome record is never written: every invocation that
\* writes its outcome writes the success record, as its last record, and err
\* is nil then, whatever the main loop and the handlers returned.
C17_OutcomeAlwaysSuccess ==
  /\ \A i \in 1..Len(log) : log[i].msg # MsgFail
  /\ \A r \in Runs :
       Finished(r) =>
         /\ Last(LogOf(r)) = LogRec(r, MsgOk, NIL)
         /\ CountMsg(LogOf(r), {MsgOk}) = 1
  /\ (run >= 1 /\ Finished(run)) => err = NIL

\* the main loop failed and both handlers failed, and success was logged
C17_Witness ==
  \E r \in Runs :
    /\ mainLoop[r] = "returnsErr" /\ arm[r] = "main"
    /\ CallsOf(r) = <<[run |-> r, hs |-> <<"err", "err">>]>>
    /\ HasMsg(r, MsgOk)

\* C18: Shutdown keeps no record of having run and leaves the handler list
\* alone: every Shutdown call that ran to its end, the first as any later
\* one, direct or made by RunAndWait, invoked exactly the registered list in
\* order, so k completed calls have invoked every handler k times.
C18_ShutdownNotIdempotent ==
  /\ \A k \in 1..Len(calls) :
       (k < Len(calls) \/ pc \in {"returned", "main"}) =>
         calls[k].hs = shutdownHandlers
  /\ pc \in {"returned", "main"} =>
       Len(Invoked(calls)) = Len(calls) * Len(shutdownHandlers)
  /\ Len(calls) <= run + direct
  /\ Len(CallsOf(0)) = direct

\* RunAndWait ran the two handlers, then a direct Shutdown ran them again
C18_Witness ==
  /\ pc = "main"
  /\ shutdownHandlers = <<"ok", "err">>
  /\ calls = <<[run |-> 1, hs |-> <<"ok", "err">>],
               [run |-> 0, hs |-> <<"ok", "err">>]>>

\* C19: a panicking handler is not contained: it is the last handler its
\* Shutdown call invokes and that call is the last one; the panic unwinds the
\* caller, and an unwound RunAndWait has written no outcome record (its
\* registration is released by the deferred cancel).
C19_HandlerPanicPropagates ==
  /\ \A k \in 1..Len(calls) :
       \A i \in 1..Len(calls[k].hs) :
         calls[k].hs[i] = "panic" =>
           /\ i = Len(calls[k].hs)
           /\ k = Len(calls)
           /\ idx = i
           /\ pc \in {"handler", "panicked"}
  /\ panicValue = "handler panic" =>
       /\ pc = "panicked"
       /\ shutdownHandlers[idx] = "panic"
       /\ Last(calls).hs = SubSeq(shutdownHandlers, 1, idx)
       /\ inRunAndWait =>
            /\ ~Finished(run)
            /\ Last(LogOf(run)).msg \notin {MsgOk, MsgFail}
            /\ registered = {}

\* the first handler panicked inside RunAndWait: the second was not invoked
\* and the panic reached the caller before any outcome record
C19_Witness ==
  /\ pc = "panicked" /\ inRunAndWait
  /\ panicValue = "handler panic"
  /\ shutdownHandlers = <<"panic", "ok">>
  /\ Last(calls).hs = <<"panic">>
  /\ ~Finished(run)
====
